---- MODULE Spec2Model ----
(***************************************************************************)
(* Booking manager of src/app.py: a Streamlit script that is re-run from   *)
(* top to bottom on every user interaction.  The record store (one sheet   *)
(* row per booking) and the calendar store are shared; mode, po_counter,   *)
(* current_customer and show_cancel_confirm live in st.session_state, one  *)
(* copy per browser session.  One action of the model is one script run.   *)
(***************************************************************************)
EXTENDS Integers, Sequences, FiniteSets, TLC

(* ------------------------------ bounds -------------------------------- *)
MaxRows == 2      \* data rows the sheet may grow to
MaxEvents == 3    \* calendar inserts performed in one behaviour
MaxDate == 2      \* dates the date input offers: 1..MaxDate
MaxFaults == 1    \* store calls made to fail in one behaviour
MaxExternal == 2  \* foreign calendar events in the availability specification
MaxFindRows == 3  \* data rows of the sheets in the search specification

(* ------------------------- program constants -------------------------- *)
FirstHour == 7     \* range(7, 15), time_min 07:00
LastHour == 15     \* range(7, 15) stops before 15
DayEnd == 18       \* time_max 18:00
BlockHours == 4    \* timedelta(hours=4)
PoWidth == 6       \* zfill(6)
PhoneTail == 9     \* [-9:]
HeaderRows == 2    \* enumerate(records, start=2) and i + 2
Today == 2         \* datetime.date.today(); date 1 lies in the past

Sessions == {1, 2}
Dates == 1..MaxDate
None == [none |-> TRUE]
Blank == <<>>      \* the empty string ""

(* -------------------------- text conversions -------------------------- *)
\* str(n): the decimal digits of n, most significant first
RECURSIVE Digits(_)
Digits(n) == IF n < 10 THEN <<n>> ELSE Digits(n \div 10) \o <<n % 10>>

\* str.zfill(w): pad on the left with zeros up to width w, never truncate
RECURSIVE zfill(_, _)
zfill(ds, w) == IF Len(ds) >= w THEN ds ELSE zfill(<<0>> \o ds, w)

\* f"E{str(po_counter).zfill(6)}"
generate_po_number(counter) == <<"E">> \o zfill(Digits(counter), PoWidth)

\* the number a PO string spells (used to compare PO numbers)
RECURSIVE DigitsValue(_)
DigitsValue(ds) ==
    IF ds = <<>> THEN 0
    ELSE 10 * DigitsValue(SubSeq(ds, 1, Len(ds) - 1)) + ds[Len(ds)]
PoValue(po) == DigitsValue(Tail(po))

\* str(datetime.date), str(datetime.time(h, 0)) and the calendar's id string
DateStr(d) == <<d>>
TimeStr(h) == <<h, 0, 0>>
IdStr(id) == <<id>>
\* pd.to_datetime(cell).date() of a cell written by DateStr
ParseDate(cell) == cell[1]

\* str.lower() over the letters the model uses
LowerChar(c) == IF c = "A" THEN "a" ELSE IF c = "B" THEN "b" ELSE c
Lower(s) == [i \in 1..Len(s) |-> LowerChar(s[i])]
\* Python's `a in b` on strings
IsSubstring(a, b) ==
    \E i \in 0..(Len(b) - Len(a)) : SubSeq(b, i + 1, i + Len(a)) = a
\* s[-n:]
LastN(s, n) == IF Len(s) <= n THEN s ELSE SubSeq(s, Len(s) - n + 1, Len(s))

(* --------------------------- calendar store --------------------------- *)
\* An event is [id, start, end, timed]: start and end are absolute hours
\* (24 * date + hour of day); timed is FALSE for an all-day event, whose
\* start/end carry "date" and no "dateTime".
Abs(d, h) == 24 * d + h

\* a slip that lists no event
get_calendar_events_none(cal, date) == {}

\* events().list(timeMin = date 07:00, timeMax = date 18:00): the events
\* that end after timeMin and start before timeMax
get_calendar_events(cal, date) ==
    {e \in cal : e.end > Abs(date, FirstHour) /\ e.start < Abs(date, DayEnd)}

\* a slip in the boundary test: a window that only touches an event counts
\* as overlapping it
is_time_available_touching(cal, date, start_time) ==
    LET start_dt == Abs(date, start_time)
        end_dt == start_dt + BlockHours
    IN \A event \in get_calendar_events(cal, date) :
          event.timed => (end_dt < event.start \/ start_dt > event.end)

is_time_available(cal, date, start_time) ==
    LET start_dt == Abs(date, start_time)
        end_dt == start_dt + BlockHours
    IN \A event \in get_calendar_events(cal, date) :
          event.timed => (end_dt <= event.start \/ start_dt >= event.end)

RECURSIVE SlotsFrom(_, _, _)
SlotsFrom(cal, date, hour) ==
    IF hour >= LastHour THEN <<>>
    ELSE (IF is_time_available(cal, date, hour) THEN <<hour>> ELSE <<>>)
         \o SlotsFrom(cal, date, hour + 1)

get_available_slots(cal, date) == SlotsFrom(cal, date, FirstHour)

SeqSet(q) == {q[i] : i \in 1..Len(q)}

\* a slip that adds three hours
EndTime_three_hours(start_time) == (start_time + 3) % 24
\* end_time = (combine(today, start_time) + 4h).time(): wraps at midnight
EndTime(start_time) == (start_time + BlockHours) % 24

\* the event create_calendar_event builds from date, start and end
NewEvent(id, date, start, end) ==
    [id |-> id, start |-> Abs(date, start), end |-> Abs(date, end), timed |-> TRUE]

\* events().delete(eventId): raises when the id names no event, or when the
\* call fails (ok = FALSE); otherwise removes the event
DeleteSucceeds(cal, eid, ok) == ok /\ \E e \in cal : IdStr(e.id) = eid
\* a slip that clears the whole calendar
CalendarAfterDelete_all(cal, eid, ok) ==
    IF DeleteSucceeds(cal, eid, ok) THEN {} ELSE cal
CalendarAfterDelete(cal, eid, ok) ==
    IF DeleteSucceeds(cal, eid, ok) THEN {e \in cal : IdStr(e.id) # eid} ELSE cal

(* ---------------------------- record store ---------------------------- *)
\* The sheet is the sequence of its data rows; data row i is sheet row i + 1.
Row(po, name, phone, from, to, date, time, endt, service, notes, eid) ==
    [PO |-> po, Name |-> name, Phone |-> phone, From |-> from, To |-> to,
     Date |-> date, Time |-> time, EndTime |-> endt, Service |-> service,
     Notes |-> notes, EventID |-> eid]

\* a slip that clears every column but the name
BlankRow_keeps_name ==
    Row(Blank, <<"A", "n">>, Blank, Blank, Blank, Blank, Blank, Blank,
        Blank, Blank, Blank)

\* [""] * 11
BlankRow == Row(Blank, Blank, Blank, Blank, Blank, Blank, Blank, Blank,
                Blank, Blank, Blank)

\* a slip that reads no record at all
get_all_records_none(sh) == <<>>
\* sheet.get_all_records(): every data row, in row order
get_all_records(sh) == sh

\* a slip that always writes to the first data row
update_booking_in_sheet_first_row(sh, row_index, values) ==
    [sh EXCEPT ![1] = values]

\* sheet.update(f"A{idx}:K{idx}", [values]): overwrite sheet row idx
update_booking_in_sheet(sh, row_index, values) ==
    [sh EXCEPT ![row_index - 1] = values]

\* sheet.append_row(values)
append_booking_to_sheet(sh, values) == Append(sh, values)

\* a slip that forgets the phone criterion
Matches_name_only(row, name, phone) ==
    name # Blank /\ IsSubstring(Lower(name), Lower(row.Name))

\* find_customer: the first record, in row order, that matches
Matches(row, name, phone) ==
    \/ name # Blank /\ IsSubstring(Lower(name), Lower(row.Name))
    \/ phone # Blank /\ LastN(row.Phone, PhoneTail) = LastN(phone, PhoneTail)

\* a slip that keeps scanning and returns the last record that matches
find_customer_last(sh, name, phone) ==
    LET records == get_all_records(sh)
        hits == {i \in 1..Len(records) : Matches(records[i], name, phone)}
    IN IF hits = {} THEN None
       ELSE LET i == CHOOSE k \in hits : \A j \in hits : k >= j
            IN [idx |-> i + HeaderRows - 1, cust |-> records[i]]

find_customer(sh, name, phone) ==
    LET records == get_all_records(sh)
        hits == {i \in 1..Len(records) : Matches(records[i], name, phone)}
    IN IF hits = {} THEN None
       ELSE LET i == CHOOSE k \in hits : \A j \in hits : k <= j
            IN [idx |-> i + HeaderRows - 1, cust |-> records[i]]

\* df[df["Date"] >= today]: positions of the rows the upcoming list shows
\* (a blank Date is coerced to NaT and never compares >= today)
Upcoming(sh) ==
    {i \in 1..Len(sh) : sh[i].Date # Blank /\ ParseDate(sh[i].Date) >= Today}


(* ------------------------ calendar operations ------------------------- *)
\* A store call made by a script run: f names the call, arg its target,
\* ok whether it returned normally.
Call(f, arg, ok) == [f |-> f, arg |-> arg, ok |-> ok]

\* create_calendar_event: events().insert(...).execute()["id"].  insOk =
\* FALSE is an insert that raises; nothing is stored then.
create_calendar_event(cal, nid, date, start, end, insOk) ==
    IF insOk
    THEN [cal |-> cal \cup {NewEvent(nid, date, start, end)},
          calls |-> <<Call("insert", IdStr(nid), TRUE)>>,
          id |-> IdStr(nid), raised |-> FALSE]
    ELSE [cal |-> cal, calls |-> <<Call("insert", Blank, FALSE)>>,
          id |-> Blank, raised |-> TRUE]

\* a slip that inserts the replacement before it deletes the old event
update_calendar_event_insert_first(cal, nid, event_id, date, start, end, delOk, insOk) ==
    LET made == create_calendar_event(cal, nid, date, start, end, insOk)
        del == Call("delete", event_id, DeleteSucceeds(cal, event_id, delOk))
    IN [made EXCEPT !.cal = CalendarAfterDelete(made.cal, event_id, delOk),
                    !.calls = made.calls \o <<del>>]

\* update_calendar_event: delete the old event inside try/except, then
\* return create_calendar_event(...)
update_calendar_event(cal, nid, event_id, date, start, end, delOk, insOk) ==
    LET deleted == CalendarAfterDelete(cal, event_id, delOk)
        del == Call("delete", event_id, DeleteSucceeds(cal, event_id, delOk))
        made == create_calendar_event(deleted, nid, date, start, end, insOk)
    IN [made EXCEPT !.calls = <<del>> \o made.calls]

\* a slip that reports the delete and leaves the event in the calendar
delete_calendar_event_kept(cal, event_id, delOk) ==
    [cal |-> cal,
     calls |-> <<Call("delete", event_id, DeleteSucceeds(cal, event_id, delOk))>>]

\* delete_calendar_event: the delete inside try/except, never raises
delete_calendar_event(cal, event_id, delOk) ==
    [cal |-> CalendarAfterDelete(cal, event_id, delOk),
     calls |-> <<Call("delete", event_id, DeleteSucceeds(cal, event_id, delOk))>>]

(* ------------------------------- state -------------------------------- *)
VARIABLES
    sheet,                \* the record store: sequence of data rows
    calendar,             \* the calendar store: set of events
    nextId,               \* the id the calendar gives its next event
    mode,                 \* st.session_state.mode, per session
    po_counter,           \* st.session_state.po_counter, per session
    current_customer,     \* st.session_state.current_customer, per session
    show_cancel_confirm,  \* st.session_state.show_cancel_confirm, per session
    page,                 \* what each session's last script run rendered
    run,                  \* the last script run: session, operation, store calls
    anyFail,              \* some store call has failed so far
    faults,               \* store calls made to fail so far
    cancelled,            \* bookings whose cancellation completed
    issued,               \* PO numbers written by each session's create-submits
    avail                 \* last answer of get_available_slots in SlotsSpec,
                          \* of find_customer in FindSpec

vars == <<sheet, calendar, nextId, mode, po_counter, current_customer,
          show_cancel_confirm, page, run, anyFail, faults, cancelled,
          issued, avail>>

session == <<mode, po_counter, current_customer, show_cancel_confirm>>
stores == <<sheet, calendar, nextId>>

(* --------------------------- rendered pages --------------------------- *)
\* A page is the set of widgets the run instantiated, the keys of its
\* View/Modify buttons, the value of the date input (0: none) and the
\* options of the Start Time select box.
Page(w, keys, date, slots) == [w |-> w, keys |-> keys, date |-> date, slots |-> slots]
NoPage == Page({}, {}, 0, <<>>)

\* search branch: the form, the New Booking button, one button per
\* upcoming row keyed by its PO No
SearchPage(sh) ==
    Page({"search", "new"}, {sh[i].PO : i \in Upcoming(sh)}, 0, <<>>)

\* view branch: Yes/No exist only while show_cancel_confirm is set
ViewPage(confirm) ==
    Page({"rebook", "cancel", "back"} \cup (IF confirm THEN {"yes", "no"} ELSE {}),
         {}, 0, <<>>)

\* form branch: st.stop() before the Submit button when there are no slots
FormPage(cal, date) ==
    LET slots == get_available_slots(cal, date)
    IN Page({"return"} \cup (IF slots # <<>> THEN {"submit"} ELSE {}), {}, date, slots)

\* st.selectbox("Start Time", slots) (line 245): the option the user chose
\* while the options are those of the page the user chose from; a select
\* box whose options changed returns one of its present options
SelectBox(shown, slots, chosen) ==
    IF slots = shown THEN {chosen} ELSE SeqSet(slots)

InForm(s) == mode[s] \in {"new_booking", "rebook"}

\* the value the date input shows in this run: its kept value, or on the
\* form's first run the default (today, or the held booking's date)
FormDate(s) ==
    IF "return" \in page[s].w THEN page[s].date
    ELSE IF mode[s] = "rebook" THEN ParseDate(current_customer[s].cust.Date)
    ELSE Today

\* a script run: chosen is the start time the user had picked when a
\* Submit Booking click started the run (0 in every other run)
Ran(s, op, calls, raised) ==
    [s |-> s, op |-> op, calls |-> calls, raised |-> raised, chosen |-> 0]
Submitted(s, op, calls, raised, chosen) ==
    [Ran(s, op, calls, raised) EXCEPT !.chosen = chosen]
Failed(calls) == \E i \in 1..Len(calls) : ~calls[i].ok

Init ==
    /\ sheet = <<>>
    /\ calendar = {}
    /\ nextId = 1
    /\ mode = [s \in Sessions |-> IF s = 1 THEN "search" ELSE "off"]
    /\ po_counter = [s \in Sessions |-> IF s = 1 THEN Len(get_all_records(<<>>)) + 1 ELSE 0]
    /\ current_customer = [s \in Sessions |-> None]
    /\ show_cancel_confirm = [s \in Sessions |-> FALSE]
    /\ page = [s \in Sessions |-> IF s = 1 THEN SearchPage(<<>>) ELSE NoPage]
    /\ run = Ran(1, "start", <<>>, FALSE)
    /\ anyFail = FALSE
    /\ faults = 0
    /\ cancelled = {}
    /\ issued = [s \in Sessions |-> <<>>]
    /\ avail = None


(* ------------------------------- inputs ------------------------------- *)
\* what the user types into the booking form's Name and Phone inputs
Customers ==
    {[name |-> <<"A", "n">>, phone |-> <<0, 4, 1, 1, 1, 1, 1, 1, 1, 1>>],
     [name |-> <<"b", "o">>, phone |-> <<6, 1, 4, 2, 2, 2, 2, 2, 2, 2, 2>>]}
\* what the user types into the search form: part of a name, the last 9
\* digits of a phone number, or a name nobody has
Query(name, phone) == [name |-> name, phone |-> phone]
Queries ==
    {Query(<<"a">>, Blank), Query(Blank, <<4, 2, 2, 2, 2, 2, 2, 2, 2>>),
     Query(<<"x">>, Blank)}
\* From Address, To Address and Notes are left empty; Service keeps its default
DefaultService == <<"Small Truck + 1 Man">>

\* the 11 values Submit Booking writes (lines 260 and 265)
BookingRow(po, c, date, start_time, event_id) ==
    Row(po, c.name, c.phone, Blank, Blank, DateStr(date), TimeStr(start_time),
        TimeStr(EndTime(start_time)), DefaultService, Blank, event_id)

(* ------------------------------ actions ------------------------------- *)
Touch(s, m, cc, flag, pg, r) ==
    /\ mode' = [mode EXCEPT ![s] = m]
    /\ current_customer' = [current_customer EXCEPT ![s] = cc]
    /\ show_cancel_confirm' = [show_cancel_confirm EXCEPT ![s] = flag]
    /\ page' = [page EXCEPT ![s] = pg]
    /\ run' = r
    /\ anyFail' = (anyFail \/ Failed(r.calls))

\* the page a run of session s renders when no widget of it fires
Rendered(s) ==
    IF mode[s] = "search" THEN SearchPage(sheet)
    ELSE IF mode[s] = "view" THEN ViewPage(show_cancel_confirm[s])
    ELSE FormPage(calendar, FormDate(s))

\* a run in which no widget of the executed branch fires: the first run
\* after a mode change, or any interaction that changes no state
Rerender(s) ==
    /\ mode[s] # "off"
    /\ Touch(s, mode[s], current_customer[s], show_cancel_confirm[s],
             Rendered(s), Ran(s, "render", <<>>, FALSE))
    /\ UNCHANGED <<stores, po_counter, faults, cancelled, issued, avail>>

\* the user picks another date in the form's date input (line 238)
ChangeDate(s, d) ==
    /\ InForm(s) /\ "return" \in page[s].w
    /\ Touch(s, mode[s], current_customer[s], show_cancel_confirm[s],
             FormPage(calendar, d), Ran(s, "date", <<>>, FALSE))
    /\ UNCHANGED <<stores, po_counter, faults, cancelled, issued, avail>>

\* Search form submitted (lines 146-152)
Search(s, name, phone) ==
    /\ mode[s] = "search" /\ "search" \in page[s].w
    /\ LET found == find_customer(sheet, name, phone)
       IN IF found # None
          THEN Touch(s, "view", found, show_cancel_confirm[s],
                     SearchPage(sheet), Ran(s, "search", <<>>, FALSE))
          ELSE Touch(s, "search", current_customer[s], show_cancel_confirm[s],
                     SearchPage(sheet), Ran(s, "search", <<>>, FALSE))
    /\ UNCHANGED <<stores, po_counter, faults, cancelled, issued, avail>>

\* New Booking button (lines 154-155)
NewBooking(s) ==
    /\ mode[s] = "search" /\ "new" \in page[s].w
    /\ Touch(s, "new_booking", current_customer[s], show_cancel_confirm[s],
             SearchPage(sheet), Ran(s, "new", <<>>, FALSE))
    /\ UNCHANGED <<stores, po_counter, faults, cancelled, issued, avail>>

\* the row whose View/Modify button carries key k: the first in the
\* upcoming list's order (by Date, then by position)
UpcomingFirst(sh, k) ==
    LET rows == {i \in Upcoming(sh) : sh[i].PO = k}
    IN CHOOSE i \in rows : \A j \in rows :
          \/ ParseDate(sh[i].Date) < ParseDate(sh[j].Date)
          \/ ParseDate(sh[i].Date) = ParseDate(sh[j].Date) /\ i <= j

\* View/Modify Booking button of an upcoming row (lines 171-173)
ViewModify(s, k) ==
    /\ mode[s] = "search" /\ k \in page[s].keys
    /\ k \in SearchPage(sheet).keys
    /\ LET i == UpcomingFirst(sheet, k)
       IN Touch(s, "view", [idx |-> i + HeaderRows - 1, cust |-> sheet[i]],
                show_cancel_confirm[s], SearchPage(sheet),
                Ran(s, "viewmodify", <<>>, FALSE))
    /\ UNCHANGED <<stores, po_counter, faults, cancelled, issued, avail>>

\* Rebook button (lines 184-185)
Rebook(s) ==
    /\ mode[s] = "view" /\ "rebook" \in page[s].w
    /\ Touch(s, "rebook", current_customer[s], show_cancel_confirm[s],
             ViewPage(show_cancel_confirm[s]), Ran(s, "rebook", <<>>, FALSE))
    /\ UNCHANGED <<stores, po_counter, faults, cancelled, issued, avail>>

\* Cancel Booking button (lines 187-188)
CancelRequest(s) ==
    /\ mode[s] = "view" /\ "cancel" \in page[s].w
    /\ Touch(s, "view", current_customer[s], TRUE, ViewPage(TRUE),
             Ran(s, "cancel_request", <<>>, FALSE))
    /\ UNCHANGED <<stores, po_counter, faults, cancelled, issued, avail>>

\* No button (lines 200-201)
CancelDecline(s) ==
    /\ mode[s] = "view" /\ "no" \in page[s].w /\ show_cancel_confirm[s]
    /\ Touch(s, "view", current_customer[s], FALSE, ViewPage(TRUE),
             Ran(s, "cancel_decline", <<>>, FALSE))
    /\ UNCHANGED <<stores, po_counter, faults, cancelled, issued, avail>>

\* a slip that goes back to the search page with the booking still held
Back_keeps_booking(s) ==
    /\ mode[s] = "view" /\ "back" \in page[s].w
    /\ Touch(s, "search", current_customer[s], show_cancel_confirm[s],
             ViewPage(show_cancel_confirm[s]), Ran(s, "back", <<>>, FALSE))
    /\ UNCHANGED <<stores, po_counter, faults, cancelled, issued, avail>>

\* Back button (lines 203-205)
Back(s) ==
    /\ mode[s] = "view" /\ "back" \in page[s].w
    /\ Touch(s, "search", None, show_cancel_confirm[s],
             ViewPage(show_cancel_confirm[s]), Ran(s, "back", <<>>, FALSE))
    /\ UNCHANGED <<stores, po_counter, faults, cancelled, issued, avail>>

\* Return to Search button (lines 210-213): st.stop() ends the run there
ReturnToSearch(s) ==
    /\ InForm(s) /\ "return" \in page[s].w
    /\ Touch(s, "search", None, show_cancel_confirm[s],
             Page({"return"}, {}, 0, <<>>), Ran(s, "return", <<>>, FALSE))
    /\ UNCHANGED <<stores, po_counter, faults, cancelled, issued, avail>>


(* ------------------------- handlers that write ------------------------ *)
\* Each handler is the code of one button, as a function of the stores it
\* starts from: the stores it leaves, the store calls it made in order,
\* and whether it raised (a raise ends the script run on the spot).

\* a slip that gives up the cancellation when the delete fails
cancel_booking_gives_up(cal, sh, cc, delOk, shOk) ==
    LET del == delete_calendar_event(cal, cc.cust.EventID, delOk)
    IN IF del.calls[1].ok
       THEN [cal |-> del.cal,
             sheet |-> IF shOk THEN update_booking_in_sheet(sh, cc.idx, BlankRow) ELSE sh,
             calls |-> del.calls \o <<Call("update", <<cc.idx>>, shOk)>>,
             raised |-> ~shOk]
       ELSE [cal |-> del.cal, sheet |-> sh, calls |-> del.calls, raised |-> TRUE]

\* "Yes, Cancel" (lines 193-195): best-effort delete, then blank the row
cancel_booking(cal, sh, cc, delOk, shOk) ==
    LET event_id == cc.cust.EventID
        del == IF event_id # Blank
               THEN delete_calendar_event(cal, event_id, delOk)
               ELSE [cal |-> cal, calls |-> <<>>]
    IN [cal |-> del.cal,
        sheet |-> IF shOk THEN update_booking_in_sheet(sh, cc.idx, BlankRow) ELSE sh,
        calls |-> del.calls \o <<Call("update", <<cc.idx>>, shOk)>>,
        raised |-> ~shOk]

\* a slip that catches the failed insert and carries on without an event id
submit_new_carries_on(cal, sh, nid, po, c, date, start_time, insOk, shOk) ==
    LET made == create_calendar_event(cal, nid, date, start_time,
                                      EndTime(start_time), insOk)
        values == BookingRow(po, c, date, start_time, made.id)
    IN [cal |-> made.cal,
        sheet |-> IF shOk THEN append_booking_to_sheet(sh, values) ELSE sh,
        calls |-> made.calls \o <<Call("append", <<Len(sh) + HeaderRows>>, shOk)>>,
        raised |-> ~shOk]

\* "Submit Booking", mode new_booking (lines 259-260)
submit_new(cal, sh, nid, po, c, date, start_time, insOk, shOk) ==
    LET made == create_calendar_event(cal, nid, date, start_time,
                                      EndTime(start_time), insOk)
        values == BookingRow(po, c, date, start_time, made.id)
    IN IF made.raised
       THEN [cal |-> made.cal, sheet |-> sh, calls |-> made.calls, raised |-> TRUE]
       ELSE [cal |-> made.cal,
             sheet |-> IF shOk THEN append_booking_to_sheet(sh, values) ELSE sh,
             calls |-> made.calls \o <<Call("append", <<Len(sh) + HeaderRows>>, shOk)>>,
             raised |-> ~shOk]

\* a slip that overwrites the row although the insert raised
submit_rebook_writes_anyway(cal, sh, nid, cc, c, date, start_time, delOk, insOk, shOk) ==
    LET made == update_calendar_event(cal, nid, cc.cust.EventID, date, start_time,
                                      EndTime(start_time), delOk, insOk)
        values == BookingRow(cc.cust.PO, c, date, start_time, made.id)
    IN [cal |-> made.cal,
        sheet |-> IF shOk THEN update_booking_in_sheet(sh, cc.idx, values) ELSE sh,
        calls |-> made.calls \o <<Call("update", <<cc.idx>>, shOk)>>,
        raised |-> made.raised \/ ~shOk]

\* "Submit Booking", mode rebook (lines 264-265): po, idx and event_id come
\* from the held current_customer (lines 216-225)
submit_rebook(cal, sh, nid, cc, c, date, start_time, delOk, insOk, shOk) ==
    LET made == update_calendar_event(cal, nid, cc.cust.EventID, date, start_time,
                                      EndTime(start_time), delOk, insOk)
        values == BookingRow(cc.cust.PO, c, date, start_time, made.id)
    IN IF made.raised
       THEN [cal |-> made.cal, sheet |-> sh, calls |-> made.calls, raised |-> TRUE]
       ELSE [cal |-> made.cal,
             sheet |-> IF shOk THEN update_booking_in_sheet(sh, cc.idx, values) ELSE sh,
             calls |-> made.calls \o <<Call("update", <<cc.idx>>, shOk)>>,
             raised |-> ~shOk]

\* st.session_state.po_counter += 1 (line 261), and a slip that forgets it
AdvanceCounterStuck(counter) == counter
AdvanceCounter(counter) == counter + 1

Inserted(calls) == \E i \in 1..Len(calls) : calls[i].f = "insert" /\ calls[i].ok

\* The outcome flags of a run are inputs.  A flag is FALSE only for a call
\* the run reaches and that would otherwise succeed, and only while the
\* behaviour has faults left; a delete of an id that names no event fails
\* without any fault.
Count(flag) == IF flag THEN 0 ELSE 1
DeleteReached(cal, event_id) == \E e \in cal : IdStr(e.id) = event_id
Inject(n) ==
    /\ faults + n <= MaxFaults
    /\ faults' = faults + n

\* Yes, Cancel button (lines 192-199)
CancelConfirm(s, delOk, shOk) ==
    /\ mode[s] = "view" /\ "yes" \in page[s].w /\ show_cancel_confirm[s]
    /\ delOk \/ DeleteReached(calendar, current_customer[s].cust.EventID)
    /\ Inject(Count(delOk) + Count(shOk))
    /\ LET cc == current_customer[s]
           r == cancel_booking(calendar, sheet, cc, delOk, shOk)
       IN /\ calendar' = r.cal
          /\ sheet' = r.sheet
          /\ IF r.raised
             THEN /\ Touch(s, "view", cc, TRUE, Page({"rebook", "cancel", "yes"}, {}, 0, <<>>),
                           Ran(s, "cancel", r.calls, TRUE))
                  /\ UNCHANGED cancelled
             ELSE /\ Touch(s, "search", None, FALSE, ViewPage(TRUE),
                           Ran(s, "cancel", r.calls, FALSE))
                  /\ cancelled' = cancelled \cup
                        {[idx |-> cc.idx, eid |-> cc.cust.EventID, po |-> cc.cust.PO]}
    /\ UNCHANGED <<nextId, po_counter, issued, avail>>

\* Submit Booking button in a run whose slot list came out empty: st.stop()
\* at line 243, before the button exists
SubmitStopped(s, chosen) ==
    /\ InForm(s) /\ "submit" \in page[s].w
    /\ chosen \in SeqSet(page[s].slots)
    /\ get_available_slots(calendar, page[s].date) = <<>>
    /\ Touch(s, mode[s], current_customer[s], show_cancel_confirm[s],
             FormPage(calendar, page[s].date),
             Submitted(s, "submit_stopped", <<>>, FALSE, chosen))
    /\ UNCHANGED <<stores, po_counter, faults, cancelled, issued, avail>>

\* Submit Booking button, mode new_booking (lines 257-262, 268-269)
SubmitNew(s, c, chosen, start_time, insOk, shOk) ==
    /\ mode[s] = "new_booking" /\ "submit" \in page[s].w
    /\ nextId <= MaxEvents /\ Len(sheet) < MaxRows
    /\ insOk \/ shOk
    /\ Inject(Count(insOk) + Count(shOk))
    /\ chosen \in SeqSet(page[s].slots)
    /\ LET slots == get_available_slots(calendar, page[s].date)
       IN slots # <<>> /\ start_time \in SelectBox(page[s].slots, slots, chosen)
    /\ LET date == page[s].date
           po == generate_po_number(po_counter[s])
           r == submit_new(calendar, sheet, nextId, po, c, date, start_time, insOk, shOk)
       IN /\ calendar' = r.cal
          /\ sheet' = r.sheet
          /\ nextId' = IF Inserted(r.calls) THEN nextId + 1 ELSE nextId
          /\ IF r.raised
             THEN /\ Touch(s, mode[s], current_customer[s], show_cancel_confirm[s],
                           FormPage(calendar, date),
                           Submitted(s, "submit_new", r.calls, TRUE, chosen))
                  /\ UNCHANGED <<po_counter, issued>>
             ELSE /\ Touch(s, "search", None, show_cancel_confirm[s],
                           FormPage(calendar, date),
                           Submitted(s, "submit_new", r.calls, FALSE, chosen))
                  /\ po_counter' = [po_counter EXCEPT ![s] = AdvanceCounter(@)]
                  /\ issued' = [issued EXCEPT ![s] = Append(@, r.sheet[Len(r.sheet)].PO)]
    /\ UNCHANGED <<cancelled, avail>>

\* Submit Booking button, mode rebook (lines 257, 263-269)
SubmitRebook(s, c, chosen, start_time, delOk, insOk, shOk) ==
    /\ mode[s] = "rebook" /\ "submit" \in page[s].w
    /\ nextId <= MaxEvents
    /\ insOk \/ shOk
    /\ delOk \/ DeleteReached(calendar, current_customer[s].cust.EventID)
    /\ Inject(Count(delOk) + Count(insOk) + Count(shOk))
    /\ chosen \in SeqSet(page[s].slots)
    /\ LET slots == get_available_slots(calendar, page[s].date)
       IN slots # <<>> /\ start_time \in SelectBox(page[s].slots, slots, chosen)
    /\ LET date == page[s].date
           cc == current_customer[s]
           r == submit_rebook(calendar, sheet, nextId, cc, c, date, start_time,
                              delOk, insOk, shOk)
       IN /\ calendar' = r.cal
          /\ sheet' = r.sheet
          /\ nextId' = IF Inserted(r.calls) THEN nextId + 1 ELSE nextId
          /\ IF r.raised
             THEN Touch(s, mode[s], cc, show_cancel_confirm[s],
                        FormPage(calendar, date),
                        Submitted(s, "submit_rebook", r.calls, TRUE, chosen))
             ELSE Touch(s, "search", None, show_cancel_confirm[s],
                        FormPage(calendar, date),
                        Submitted(s, "submit_rebook", r.calls, FALSE, chosen))
    /\ UNCHANGED <<po_counter, cancelled, issued, avail>>

\* a further browser session opens the app: lines 35-45, then the search page
StartSession(s) ==
    /\ mode[s] = "off"
    /\ po_counter' = [po_counter EXCEPT ![s] = Len(get_all_records(sheet)) + 1]
    /\ Touch(s, "search", None, FALSE, SearchPage(sheet), Ran(s, "start", <<>>, FALSE))
    /\ UNCHANGED <<stores, faults, cancelled, issued, avail>>

(* --------------------------- specifications --------------------------- *)
\* the start times the user ever picks in the Start Time select box
UserHours == {7, 10, 14}

\* One script run of session s.  queries: what the user searches for;
\* custs, edits: what the user types as Name and Phone of a new booking
\* and of a rebooked one; dates and hours: the dates and start times the
\* user picks; oks: the outcomes of the insert and of the sheet writes;
\* dels: the outcomes of the deletes.
Lookup(s, queries) ==
    \/ Rerender(s)
    \/ \E q \in queries : Search(s, q.name, q.phone)
    \/ NewBooking(s)
    \/ \E k \in page[s].keys : ViewModify(s, k)
    \/ CancelRequest(s)
    \/ Back(s)

\* the pairs of a start time the user picked on the page and the start
\* time the select box returns in the run the Submit click starts
Offered(s, hours) ==
    IF InForm(s) /\ "submit" \in page[s].w
    THEN LET slots == get_available_slots(calendar, page[s].date)
         IN {t \in (hours \cap SeqSet(page[s].slots)) \X (hours \cap SeqSet(slots)) :
                t[2] \in SelectBox(page[s].slots, slots, t[1])}
    ELSE {}

Change(s, custs, edits, dates, hours, oks, dels) ==
    \/ \E d \in dates : ChangeDate(s, d)
    \/ Rebook(s)
    \/ CancelDecline(s)
    \/ ReturnToSearch(s)
    \/ \E delOk \in dels, shOk \in oks : CancelConfirm(s, delOk, shOk)
    \/ \E t \in Offered(s, hours), c \in custs, insOk, shOk \in oks :
          SubmitNew(s, c, t[1], t[2], insOk, shOk)
    \/ \E t \in Offered(s, hours), c \in edits, delOk \in dels, insOk, shOk \in oks :
          SubmitRebook(s, c, t[1], t[2], delOk, insOk, shOk)

\* One browser session.  New bookings are entered for the first customer;
\* a rebooking may retype name and phone as either customer.
OneCustomer == {c \in Customers : c.name = <<"A", "n">>}
Next ==
    \/ Lookup(1, Queries)
    \/ Change(1, OneCustomer, Customers, Dates, UserHours, BOOLEAN, BOOLEAN)
Spec == Init /\ [][Next]_vars

\* Two browser sessions on the same sheet and calendar.  Both users look
\* bookings up by name, create bookings for today at 07:00 or 11:00 and
\* cancel them; only deletes fail.
TwoHours == {7, 11}
Desk(s) ==
    \/ Lookup(s, {Query(<<"a">>, Blank)})
    \/ \E delOk \in BOOLEAN : CancelConfirm(s, delOk, TRUE)
    \/ \E t \in Offered(s, TwoHours), c \in OneCustomer :
          SubmitNew(s, c, t[1], t[2], TRUE, TRUE)
    \/ \E h \in TwoHours : SubmitStopped(s, h)
NextTwo == StartSession(2) \/ Desk(1) \/ Desk(2)
SpecTwo == Init /\ [][NextTwo]_vars

(* ------------------- availability as a pure function ------------------ *)
\* Calendars holding events entered by hand: timed events of one or four
\* hours around the working day, and all-day events.
ExternalEvents ==
    {[id |-> 0, start |-> Abs(d, h), end |-> Abs(d, h) + len, timed |-> TRUE] :
        d \in Dates, h \in {6, 9, 10, 13, 14, 17}, len \in {1, 4}}
    \cup {[id |-> 0, start |-> Abs(d, 0), end |-> Abs(d + 1, 0), timed |-> FALSE] :
            d \in Dates}

RECURSIVE CalendarsUpTo(_)
CalendarsUpTo(n) ==
    IF n = 0 THEN {{}}
    ELSE LET smaller == CalendarsUpTo(n - 1)
         IN smaller \cup {c \cup {e} : c \in smaller, e \in ExternalEvents}

SlotsInit ==
    /\ Init!1 /\ Init!3 /\ Init!4 /\ Init!5 /\ Init!6 /\ Init!7 /\ Init!8
    /\ Init!9 /\ Init!10 /\ Init!11 /\ Init!12 /\ Init!13 /\ Init!14
    /\ calendar \in CalendarsUpTo(MaxExternal)

\* slots = get_available_slots(date) (line 240)
QuerySlots(d) ==
    /\ avail' = [date |-> d, slots |-> get_available_slots(calendar, d)]
    /\ UNCHANGED <<sheet, calendar, nextId, mode, po_counter, current_customer,
                   show_cancel_confirm, page, run, anyFail, faults, cancelled, issued>>

SlotsNext == \E d \in Dates : QuerySlots(d)
SlotsSpec == SlotsInit /\ [][SlotsNext]_vars

(* --------------------- search as a pure function ---------------------- *)
\* Sheets of up to MaxFindRows bookings, one per day from today on, some of
\* them cancelled; the third customer has a short phone number.
FindCustomers ==
    Customers \cup {[name |-> <<"b", "A", "n">>, phone |-> <<1, 2, 3>>]}
FindSheet(cs) ==
    [i \in 1..Len(cs) |->
        IF cs[i] = None THEN BlankRow
        ELSE BookingRow(generate_po_number(i), cs[i], Today + i - 1, FirstHour, IdStr(i))]
FindCalendar(sh) ==
    {NewEvent(i, Today + i - 1, FirstHour, EndTime(FirstHour)) :
        i \in {k \in 1..Len(sh) : sh[k] # BlankRow}}
\* what the user types into the search form
FindQueries ==
    {Query(n, p) :
        n \in {Blank, <<"a">>, <<"B">>, <<"A", "n">>, <<"x">>},
        p \in {Blank, <<4, 1, 1, 1, 1, 1, 1, 1, 1>>,
               <<6, 1, 4, 2, 2, 2, 2, 2, 2, 2, 2>>, <<9, 1, 2, 3>>, <<1, 2, 3>>}}

FindInit ==
    /\ \E n \in 0..MaxFindRows :
          \E cs \in [1..n -> FindCustomers \cup {None}] : sheet = FindSheet(cs)
    /\ calendar = FindCalendar(sheet)
    /\ nextId = Len(sheet) + 1
    /\ po_counter = [s \in Sessions |-> IF s = 1 THEN Len(get_all_records(sheet)) + 1 ELSE 0]
    /\ page = [s \in Sessions |-> IF s = 1 THEN SearchPage(sheet) ELSE NoPage]
    /\ Init!4 /\ Init!6 /\ Init!7 /\ Init!9 /\ Init!10 /\ Init!11 /\ Init!12
    /\ Init!13 /\ Init!14

\* idx, cust = find_customer(name=name, phone=phone) (line 147)
FindQuery(q) ==
    /\ avail' = [query |-> q, found |-> find_customer(sheet, q.name, q.phone)]
    /\ UNCHANGED <<sheet, calendar, nextId, mode, po_counter, current_customer,
                   show_cancel_confirm, page, run, anyFail, faults, cancelled, issued>>

FindNext == \E q \in FindQueries : FindQuery(q)
FindSpec == FindInit /\ [][FindNext]_vars

(* ------------------------------- claims ------------------------------- *)
\* the half-open overlap test of a four-hour window starting at hour h of
\* date d against an event's start and end
Overlaps(d, h, e) == ~(Abs(d, h) + BlockHours <= e.start \/ Abs(d, h) >= e.end)
Ascending(q) == \A i \in 1..(Len(q) - 1) : q[i] < q[i + 1]
OneTimed(d, from, to) ==
    {[id |-> 0, start |-> Abs(d, from), end |-> Abs(d, to), timed |-> TRUE]}

\* C1 as stated: get_available_slots(date) is, in ascending order, exactly
\* the start hours 7..14 whose four-hour window overlaps no event of the
\* calendar, whatever the events are.
C1_SlotsAvoidEveryEvent ==
    avail # None =>
        /\ Ascending(avail.slots)
        /\ SeqSet(avail.slots) =
              {h \in 7..14 : \A e \in calendar : ~Overlaps(avail.date, h, e)}

\* C1 amended: get_available_slots(date) is, in ascending order, exactly the
\* start hours 7..14 whose four-hour window overlaps no event that carries a
\* start and an end date-time (all-day events are skipped); no events give
\* all 8 slots, one event 09:00-13:00 gives [13, 14], one event 10:00-14:00
\* gives [14].
C1_SlotsAvoidTimedEvents ==
    avail # None =>
        /\ Ascending(avail.slots)
        /\ SeqSet(avail.slots) =
              {h \in 7..14 : \A e \in calendar : e.timed => ~Overlaps(avail.date, h, e)}
        /\ calendar = {} => avail.slots = <<7, 8, 9, 10, 11, 12, 13, 14>>
        /\ calendar = OneTimed(avail.date, 9, 13) => avail.slots = <<13, 14>>
        /\ calendar = OneTimed(avail.date, 10, 14) => avail.slots = <<14>>

\* C1 witness: the slots of a date whose only event is 10:00-14:00 were computed
C1_Witness ==
    /\ avail # None
    /\ calendar = OneTimed(avail.date, 10, 14)
    /\ avail.slots = <<14>>

(* helpers of the claims about bookings *)
NonBlank(sh) == {i \in 1..Len(sh) : sh[i] # BlankRow}
RowStart(r) == Abs(ParseDate(r.Date), r.Time[1])
RowEnd(r) == Abs(ParseDate(r.Date), r.EndTime[1])
EventsNamed(cal, eid) == {e \in cal : IdStr(e.id) = eid}
RowsNaming(sh, eid) == {i \in NonBlank(sh) : sh[i].EventID = eid}
SubmitOps == {"submit_new", "submit_rebook"}
\* the session and the booking reference a run started from
Held == current_customer[run'.s]
HeldRow == Held.idx - (HeaderRows - 1)

\* C2 as stated: in one session, whatever was created, rebooked or
\* cancelled, no two calendar events and no two non-blank rows have
\* overlapping [start, end) windows on the same date.
C2_NoOverlap ==
    /\ \A e1, e2 \in calendar :
          e1 # e2 => (e1.end <= e2.start \/ e1.start >= e2.end)
    /\ \A i, j \in NonBlank(sheet) :
          i # j => \/ sheet[i].Date # sheet[j].Date
                   \/ RowEnd(sheet[i]) <= RowStart(sheet[j])
                   \/ RowStart(sheet[i]) >= RowEnd(sheet[j])

\* C3: while no store call has failed, every non-blank row's Event ID names
\* exactly one event of the calendar, every event of the calendar is named
\* by exactly one non-blank row, and every cancelled booking has a blank row
\* and no event.
C3_RowsAndEventsPaired ==
    ~anyFail =>
        /\ \A i \in NonBlank(sheet) :
              Cardinality(EventsNamed(calendar, sheet[i].EventID)) = 1
        /\ \A e \in calendar : Cardinality(RowsNaming(sheet, IdStr(e.id))) = 1
        /\ \A c \in cancelled :
              /\ sheet[c.idx - (HeaderRows - 1)] = BlankRow
              /\ EventsNamed(calendar, c.eid) = {}

\* C3 witness: without any failure one booking was cancelled and another is live
C3_Witness ==
    /\ ~anyFail
    /\ cancelled # {}
    /\ \E i \in NonBlank(sheet) : EventsNamed(calendar, sheet[i].EventID) # {}

C4_Step ==
    /\ (run'.op = "submit_new" /\ ~run'.raised) =>
          /\ Len(sheet') = Len(sheet) + 1
          /\ \A i \in 1..Len(issued[run'.s]) :
                PoValue(issued[run'.s][i]) < PoValue(sheet'[Len(sheet')].PO)
          /\ po_counter'[run'.s] > po_counter[run'.s]
    /\ run'.op \in {"submit_rebook", "cancel"} => po_counter' = po_counter

\* C4: in one session the PO number a successful create-submit writes is
\* greater than every PO number the session's earlier create-submits wrote,
\* also after bookings were cancelled; rebook and cancel leave the PO
\* counter alone.
C4_PoStrictlyIncreasing == [][C4_Step]_vars

\* C4 witness: a second booking was created after the first one was cancelled
C4_Witness ==
    /\ Len(issued[1]) = 2
    /\ Len(sheet) = 2 /\ sheet[1] = BlankRow /\ sheet[2] # BlankRow
    /\ PoValue(sheet[2].PO) = 2

C5_Step ==
    (run'.op = "submit_rebook" /\ ~run'.raised) =>
        /\ Len(sheet') = Len(sheet)
        /\ \A i \in 1..Len(sheet) : i # HeldRow => sheet'[i] = sheet[i]
        /\ sheet'[HeldRow].PO = sheet[HeldRow].PO
        /\ sheet'[HeldRow].EventID # sheet[HeldRow].EventID
        /\ \E e \in calendar' \ calendar :
              /\ sheet'[HeldRow].EventID = IdStr(e.id)
              /\ RowStart(sheet'[HeldRow]) = e.start
              /\ RowEnd(sheet'[HeldRow]) = e.end
        /\ sheet'[HeldRow].Date = DateStr(page[run'.s].date)
        /\ \E c \in Customers :
              sheet'[HeldRow].Name = c.name /\ sheet'[HeldRow].Phone = c.phone
        /\ po_counter' = po_counter

\* C5: a successful rebook-submit overwrites exactly the row at the held
\* row index: the row keeps its PO number, takes the form's fields and the
\* id of the event just inserted; the number of rows, every other row and
\* the PO counter stay as they were.
C5_RebookOverwritesHeldRow == [][C5_Step]_vars

\* C5 witness: with two bookings on the sheet, the second was rebooked to
\* the other customer and its row now names the third event
C5_Witness ==
    /\ run.op = "submit_rebook" /\ ~run.raised
    /\ Len(sheet) = 2 /\ sheet[1] # BlankRow
    /\ sheet[2].Name = <<"b", "o">>
    /\ sheet[2].PO = generate_po_number(2)
    /\ sheet[2].EventID = IdStr(3)

(* helpers of the claims about one script run *)
\* the store calls of the run just made, and those of one kind
Calls == run'.calls
CallsTo(f) == {i \in 1..Len(Calls) : Calls[i].f = f}
\* every row but the held one is as it was, and no row came or went
OnlyHeldRowMay ==
    /\ Len(sheet') = Len(sheet)
    /\ \A i \in 1..Len(sheet) : i # HeldRow => sheet'[i] = sheet[i]

C6_Step ==
    run'.op = "cancel" =>
        /\ \A i \in CallsTo("delete") : Held.cust.EventID # Blank
        /\ Held.cust.EventID # Blank =>
              /\ Len(Calls) = 2
              /\ Calls[1].f = "delete" /\ Calls[1].arg = Held.cust.EventID
        /\ Calls[Len(Calls)].f = "update" /\ Calls[Len(Calls)].arg = <<Held.idx>>
        /\ Calls[Len(Calls)].ok =>
              /\ OnlyHeldRowMay
              /\ sheet'[HeldRow] = BlankRow
              /\ mode'[run'.s] = "search"
              /\ current_customer'[run'.s] = None

\* C6: a cancel confirmation first attempts the calendar delete of the held
\* booking's event (never when the Event ID is empty), then issues the
\* overwrite of the held row whether the delete succeeded or failed; once
\* the sheet accepts the overwrite the row is blank in place, the row count
\* and every other row are as before, and the session is in search mode
\* holding no booking.
C6_CancelBlanksRowAfterDelete == [][C6_Step]_vars

\* C6 witness: the delete of a cancellation failed, the event is still in
\* the calendar, and the row is blank next to an untouched other row
C6_Witness ==
    /\ run.op = "cancel" /\ ~run.calls[1].ok /\ run.calls[2].ok
    /\ Len(sheet) = 2 /\ sheet[1] = BlankRow /\ sheet[2] # BlankRow
    /\ EventsNamed(calendar, run.calls[1].arg) # {}
    /\ mode[1] = "search" /\ current_customer[1] = None

C7_Step ==
    (run'.op \in SubmitOps /\ \E i \in CallsTo("insert") : ~Calls[i].ok) =>
        /\ sheet' = sheet
        /\ CallsTo("append") = {} /\ CallsTo("update") = {}

\* C7: a create-submit or rebook-submit whose calendar insert fails makes no
\* record-store write: no append or overwrite is issued and the sheet is
\* as it was.
C7_NoWriteAfterFailedInsert == [][C7_Step]_vars

\* C7 witness: a rebook-submit deleted the old event and then failed to insert
C7_Witness ==
    /\ run.op = "submit_rebook" /\ run.raised
    /\ Len(run.calls) = 2 /\ run.calls[1].ok /\ ~run.calls[2].ok
    /\ Len(sheet) = 1 /\ sheet[1] # BlankRow

\* the start hours whose four-hour window on date d overlaps no timed
\* event of the calendar as it is now
FreeNow(d) ==
    {h \in FirstHour..(LastHour - 1) :
        \A e \in calendar : e.timed => ~Overlaps(d, h, e)}
NewEvents == calendar' \ calendar

C8_Step ==
    run'.op \in SubmitOps \cup {"submit_stopped"} =>
        LET date == page[run'.s].date
        IN /\ \A e \in NewEvents : \E h \in FreeNow(date) : e.start = Abs(date, h)
           /\ sheet' # sheet => NewEvents # {}
           /\ run'.chosen \notin FreeNow(date) =>
                 NewEvents = {} /\ sheet' = sheet

\* C8 as stated: a submit that writes uses a start time that is in
\* availableSlots(date) for the calendar as it is when the submit runs; when
\* no slot is left, or the start time the user chose is no longer available
\* when the submit runs, no event is inserted and no row is written.
C8_SubmitRevalidatesChosenSlot == [][C8_Step]_vars

C9_Step ==
    run'.op = "submit_rebook" =>
        /\ Len(Calls) >= 2
        /\ Calls[1].f = "delete" /\ Calls[1].arg = Held.cust.EventID
        /\ Calls[2].f = "insert"
        /\ Calls[2].ok =>
              /\ Len(Calls) = 3
              /\ Calls[3].f = "update" /\ Calls[3].arg = <<Held.idx>>
              /\ \E e \in NewEvents : IdStr(e.id) = Calls[2].arg
              /\ Calls[3].ok =>
                    /\ sheet'[HeldRow].EventID = Calls[2].arg
                    /\ sheet'[HeldRow].PO = Held.cust.PO
        /\ ~Calls[1].ok => EventsNamed(calendar', Held.cust.EventID) =
                             EventsNamed(calendar, Held.cust.EventID)

\* C9: a rebook-submit attempts the delete of the held booking's event
\* before it inserts the replacement; whether the delete succeeded or
\* failed, a successful insert is followed by the overwrite of the held
\* row, which then names the replacement event; a failed delete leaves the
\* old event where it was.
C9_RebookDeletesBeforeInsert == [][C9_Step]_vars

\* C9 witness: the delete of a rebook-submit failed, the replacement was
\* inserted next to the old event and the row names the replacement
C9_Witness ==
    /\ run.op = "submit_rebook" /\ ~run.raised
    /\ Len(run.calls) = 3 /\ ~run.calls[1].ok /\ run.calls[2].ok /\ run.calls[3].ok
    /\ EventsNamed(calendar, run.calls[1].arg) # {}
    /\ EventsNamed(calendar, run.calls[2].arg) # {}
    /\ \E i \in NonBlank(sheet) : sheet[i].EventID = run.calls[2].arg

\* a cancel confirmation that starts from a held row already blank
StaleCancel == run'.op = "cancel" /\ sheet[HeldRow] = BlankRow

C10_StepAsStated ==
    StaleCancel =>
        /\ ~run'.raised
        /\ \A i \in CallsTo("delete") : ~Calls[i].ok
        /\ sheet' = sheet
        /\ calendar' = calendar

\* C10 as stated: cancelling a booking whose row is already blank raises no
\* error, deletes nothing from the calendar and leaves both stores exactly
\* as they were.
C10_CancelTwiceIsNoOp == [][C10_StepAsStated]_vars

C10_Step ==
    StaleCancel =>
        /\ Calls[Len(Calls)].ok => ~run'.raised
        /\ sheet' = sheet
        /\ calendar' \subseteq calendar
        /\ calendar \ calendar' \subseteq EventsNamed(calendar, Held.cust.EventID)
        /\ EventsNamed(calendar, Held.cust.EventID) = {} =>
              /\ calendar' = calendar
              /\ \A i \in CallsTo("delete") : ~Calls[i].ok

\* C10 amended: cancelling a booking whose row is already blank raises no
\* error and leaves the record store exactly as it was; the calendar is left
\* as it was when the booking's event is already gone (the delete then fails
\* and is ignored), and otherwise loses at most that one event, which an
\* earlier cancellation's failed delete had left behind.
C10_CancelTwiceKeepsSheet == [][C10_Step]_vars

\* C10 witness: the second session cancelled a booking the first had
\* already cancelled: its delete found no event and the row stayed blank
C10_Witness ==
    /\ run.op = "cancel" /\ run.s = 2 /\ ~run.raised
    /\ ~run.calls[1].ok /\ faults = 0
    /\ Len(sheet) = 1 /\ sheet[1] = BlankRow /\ calendar = {}
    /\ cancelled # {}

(* helpers of the claims about searching *)
\* the non-empty substrings of a text
Substrings(t) == {SubSeq(t, i, j) : i \in 1..Len(t), j \in 1..Len(t)} \ {<<>>}
\* the searches the round trip speaks of: by the last 9 digits of the
\* booking's phone, or by a part of its name
RoundTripQueries(r) ==
    {Query(Blank, LastN(r.Phone, PhoneTail))}
        \cup {Query(n, Blank) : n \in Substrings(r.Name)}
\* the row a create-submit just appended, as a search result
JustCreated == [idx |-> Len(sheet') + HeaderRows - 1, cust |-> sheet'[Len(sheet')]]
EarlierHits(q) ==
    {i \in 1..(Len(sheet') - 1) : Matches(sheet'[i], q.name, q.phone)}

C11_StepAsStated ==
    (run'.op = "submit_new" /\ ~run'.raised) =>
        \A q \in RoundTripQueries(JustCreated.cust) :
            find_customer(sheet', q.name, q.phone) = JustCreated

\* C11 as stated: whatever the sheet holds, after a successful
\* create-submit a search by the booking's phone (last 9 digits) or by a
\* part of its name returns the row index and content of the new row.
C11_SearchFindsCreated == [][C11_StepAsStated]_vars

C11_Step ==
    (run'.op = "submit_new" /\ ~run'.raised) =>
        \A q \in RoundTripQueries(JustCreated.cust) :
            LET found == find_customer(sheet', q.name, q.phone)
            IN /\ found # None
               /\ EarlierHits(q) = {} => found = JustCreated
               /\ EarlierHits(q) # {} =>
                     /\ found.idx - (HeaderRows - 1) \in EarlierHits(q)
                     /\ \A i \in EarlierHits(q) : found.idx - (HeaderRows - 1) <= i
                     /\ found.cust = sheet'[found.idx - (HeaderRows - 1)]

\* C11 amended: after a successful create-submit a search by the booking's
\* phone (last 9 digits) or by a part of its name returns the row index and
\* content of the new row when no earlier row matches the same query;
\* when earlier rows match, it returns the first of them instead.
C11_SearchFindsCreatedOrEarlier == [][C11_Step]_vars

\* C11 witness: the second booking was created next to a first one of
\* another name, and the search by name opened the second row
C11_Witness ==
    /\ run.op = "search"
    /\ Len(sheet) = 2 /\ sheet[1].Name = <<"b", "o">> /\ sheet[2].Name = <<"A", "n">>
    /\ current_customer[1] = [idx |-> 3, cust |-> sheet[2]]

\* two characters that are equal up to case
SameLetter(a, b) ==
    a = b \/ {a, b} = {"A", "a"} \/ {a, b} = {"B", "b"} \/ {a, b} = {"N", "n"}
\* text n occurs in text t, case ignored
OccursIn(n, t) ==
    \E k \in 0..(Len(t) - Len(n)) : \A i \in 1..Len(n) : SameLetter(n[i], t[k + i])
\* the last 9 characters of a text (all of it when it is shorter)
Last9(t) ==
    LET m == IF Len(t) < 9 THEN Len(t) ELSE 9
    IN [i \in 1..m |-> t[Len(t) - m + i]]
\* the positions of the records the query selects
Selected(sh, q) ==
    {i \in 1..Len(sh) :
        \/ q.name # <<>> /\ OccursIn(q.name, sh[i].Name)
        \/ q.phone # <<>> /\ Last9(sh[i].Phone) = Last9(q.phone)}

\* C12: find_customer(name, phone) returns the lowest-positioned record,
\* with row index position + 1, for which the non-empty name query occurs
\* in the stored name (case ignored) or the non-empty phone query agrees
\* with the stored phone on the last 9 characters; it returns not-found
\* when no record does, and always when both queries are empty.
C12_FindReturnsFirstMatch ==
    avail # None =>
        LET hits == Selected(sheet, avail.query)
        IN /\ hits = {} => avail.found = None
           /\ hits # {} =>
                 /\ avail.found # None
                 /\ avail.found.idx - 1 \in hits
                 /\ \A i \in hits : avail.found.idx - 1 <= i
                 /\ avail.found.cust = sheet[avail.found.idx - 1]
           /\ (avail.query.name = <<>> /\ avail.query.phone = <<>>) =>
                 avail.found = None

\* C12 witness: the name does not match the first row, the phone's last 9
\* digits match the second and the third: the second (sheet row 3) is returned
C12_Witness ==
    /\ avail # None
    /\ avail.query = Query(<<"x">>, <<6, 1, 4, 2, 2, 2, 2, 2, 2, 2, 2>>)
    /\ Len(sheet) = 3
    /\ sheet[1].Name = <<"A", "n">> /\ sheet[2].Name = <<"b", "o">>
    /\ sheet[3].Name = <<"b", "o">>
    /\ avail.found = [idx |-> 3, cust |-> sheet[2]]

C13_Step ==
    (run'.op \in SubmitOps /\ \E i \in CallsTo("insert") : ~Calls[i].ok) =>
        \A i \in NonBlank(sheet') : EventsNamed(calendar', sheet'[i].EventID) # {}

\* C13 as stated: after a create-submit or rebook-submit whose calendar
\* insert failed, every non-blank row's Event ID still names an event of
\* the calendar.
C13_NoDanglingRowAfterFailedInsert == [][C13_Step]_vars

\* C13 witness: the insert of a rebook-submit failed after the old event
\* was deleted, and the booking's row names an event that is gone
C13_Witness ==
    /\ run.op = "submit_rebook" /\ run.raised
    /\ ~run.calls[Len(run.calls)].ok /\ run.calls[Len(run.calls)].f = "insert"
    /\ \E i \in NonBlank(sheet) :
          /\ sheet[i].EventID = run.calls[1].arg
          /\ EventsNamed(calendar, sheet[i].EventID) = {}

C14_Step ==
    \A s \in Sessions :
        (mode[s] # "view" /\ mode'[s] = "view") => ~show_cancel_confirm'[s]

\* C14 as stated: whenever View is entered for a booking, from the search
\* form or from the upcoming list, the confirmation prompt is not active,
\* so that a row can be blanked only after a cancel request made during
\* that viewing of that booking.
C14_ViewEnteredWithoutPrompt == [][C14_Step]_vars

\* C14 witness: the run that opened the second booking from the upcoming
\* list left View with the prompt of an earlier viewing still active
C14_Witness ==
    /\ run.op = "viewmodify" /\ mode[1] = "view" /\ show_cancel_confirm[1]
    /\ Len(sheet) = 2 /\ sheet[1] # BlankRow
    /\ current_customer[1] = [idx |-> 3, cust |-> sheet[2]]

\* the run just made had a calendar insert or a sheet write fail
WriteFailed ==
    \E i \in 1..Len(Calls) : Calls[i].f \in {"insert", "append", "update"} /\ ~Calls[i].ok

C15_Step ==
    (run'.op \in SubmitOps /\ WriteFailed) =>
        /\ mode'[run'.s] = mode[run'.s]
        /\ mode'[run'.s] \in {"new_booking", "rebook"}
        /\ current_customer'[run'.s] = current_customer[run'.s]
        /\ po_counter' = po_counter

\* C15: a submit that a store failure aborts (the calendar insert fails, or
\* the sheet append or overwrite fails after the insert succeeded) leaves
\* the session as it was: the mode is still new_booking or rebook as
\* before, the held booking is the same, and the PO counter has not moved.
C15_AbortedSubmitKeepsState == [][C15_Step]_vars

\* C15 witness: a create-submit inserted its event and then failed to
\* append the row; the session is still on the new-booking form, counter 1
C15_Witness ==
    /\ run.op = "submit_new" /\ run.raised
    /\ Len(run.calls) = 2 /\ run.calls[1].ok /\ ~run.calls[2].ok
    /\ mode[1] = "new_booking" /\ current_customer[1] = None /\ po_counter[1] = 1
    /\ sheet = <<>> /\ calendar # {}

C16_Step ==
    /\ run'.op = "start" => po_counter'[run'.s] = Len(sheet) + 1
    /\ (run'.op = "submit_new" /\ ~run'.raised) =>
          /\ PoValue(sheet'[Len(sheet')].PO) = po_counter[run'.s]
          /\ \A t \in Sessions \ {run'.s} : po_counter'[t] = po_counter[t]
    /\ \A s \in Sessions : \A i, j \in 1..Len(issued'[s]) :
          i < j => PoValue(issued'[s][i]) < PoValue(issued'[s][j])

\* C16: with two sessions, each session seeds its PO counter from the
\* record count at its start and numbers its bookings from its own counter
\* alone, whatever the other session has appended meanwhile; a session
\* never repeats a number of its own, and (the witness) there is an
\* interleaving in which each session performs a successful create-submit
\* and both appended rows carry the same PO number.
C16_CountersArePerSession == [][C16_Step]_vars

\* C16 witness: each session has created one booking and both rows carry
\* the same PO number
C16_Witness ==
    /\ Len(sheet) = 2 /\ sheet[1] # BlankRow /\ sheet[2] # BlankRow
    /\ sheet[1].PO = sheet[2].PO
    /\ issued[1] = <<sheet[1].PO>> /\ issued[2] = <<sheet[2].PO>>

\* hour of day and date of an absolute hour
HourOf(t) == t % 24
DateOf(t) == t \div 24

\* C17: every event in the calendar and every non-blank row, all written
\* by create- and rebook-submits, starts on the hour between 07:00 and
\* 14:00 and ends four hours later, no later than 18:00 of the same date;
\* a row's Date, Time and End Time are the start and end of the event
\* whose id it stores.
C17_FourHourWindows ==
    /\ \A e \in calendar :
          /\ e.timed
          /\ HourOf(e.start) \in 7..14
          /\ e.end = e.start + 4
          /\ DateOf(e.end) = DateOf(e.start) /\ HourOf(e.end) <= 18
    /\ \A i \in NonBlank(sheet) :
          /\ Len(sheet[i].Time) = 3 /\ Len(sheet[i].EndTime) = 3
          /\ sheet[i].Time[1] \in 7..14
          /\ sheet[i].Time[2] = 0 /\ sheet[i].Time[3] = 0
          /\ sheet[i].EndTime = <<sheet[i].Time[1] + 4, 0, 0>>
          /\ \A e \in EventsNamed(calendar, sheet[i].EventID) :
                /\ DateOf(e.start) = ParseDate(sheet[i].Date)
                /\ HourOf(e.start) = sheet[i].Time[1]
                /\ HourOf(e.end) = sheet[i].EndTime[1]

\* C17 witness: a booking was rebooked to the last slot, 14:00-18:00, and
\* its row and its event say so
C17_Witness ==
    /\ run.op = "submit_rebook" /\ ~run.raised
    /\ \E i \in NonBlank(sheet) :
          /\ sheet[i].Time = <<14, 0, 0>> /\ sheet[i].EndTime = <<18, 0, 0>>
          /\ sheet[i].EventID = run.calls[2].arg
          /\ \E e \in EventsNamed(calendar, sheet[i].EventID) : HourOf(e.end) = 18

\* C18: between user interactions a session holds no booking while its
\* mode is search or new_booking, and holds one (row index and record)
\* while its mode is view or rebook; in particular every run that ends in
\* search mode, by Back, Return to Search, Yes, Cancel or Submit Booking,
\* has cleared the held booking.
C18_HeldBookingFollowsMode ==
    \A s \in Sessions :
        /\ mode[s] \in {"off", "search", "new_booking"} => current_customer[s] = None
        /\ mode[s] \in {"view", "rebook"} =>
              /\ current_customer[s] # None
              /\ current_customer[s].idx \in 2..(Len(sheet) + 1)
              /\ current_customer[s].cust.PO # Blank
        /\ (run.s = s /\ run.op \in {"back", "return", "cancel", "submit_new",
                                      "submit_rebook"} /\ ~run.raised) =>
              mode[s] = "search" /\ current_customer[s] = None

\* C18 witness: a rebook-submit has just completed: the session that held
\* the booking in rebook mode is in search mode and holds nothing
C18_Witness ==
    /\ run.op = "submit_rebook" /\ ~run.raised
    /\ mode[1] = "search" /\ current_customer[1] = None
    /\ NonBlank(sheet) # {}

\* the event a rebook-submit inserted lies on the held booking's date and
\* clear of the window the held booking had
ClearOfHeldWindow ==
    \A e \in NewEvents :
        DateOf(e.start) = ParseDate(Held.cust.Date) =>
            /\ e.end <= RowStart(Held.cust) \/ e.start >= RowEnd(Held.cust)
            /\ HourOf(e.start) # Held.cust.Time[1]
OwnEventPresent == EventsNamed(calendar, Held.cust.EventID) # {}

C19_StepAsStated == run'.op = "submit_rebook" => ClearOfHeldWindow

\* C19 as stated: a rebook-submit on the booking's current date never
\* produces a window that overlaps the booking's previous window; the
\* booking is never resubmitted with its existing start time.
C19_RebookAvoidsOwnWindow == [][C19_StepAsStated]_vars

C19_Step ==
    run'.op = "submit_rebook" =>
        /\ OwnEventPresent => ClearOfHeldWindow
        /\ ~anyFail => OwnEventPresent

\* C19 amended: the slots of a rebook are computed from the calendar alone;
\* while the booking's own event is still in the calendar, which is always
\* so as long as no store call has failed, it counts as occupied and the
\* rebook-submit produces no window on the booking's current date that
\* overlaps its previous window, in particular not its existing start time.
C19_RebookAvoidsOwnEvent == [][C19_Step]_vars

\* C19 witness: a booking of today 07:00 was rebooked with its own event
\* in the calendar: the replacement was inserted today at 14:00 (the sheet
\* write then failed, so the row still shows the previous window)
C19_Witness ==
    /\ run.op = "submit_rebook" /\ Len(run.calls) = 3
    /\ run.calls[1].ok /\ run.calls[2].ok /\ ~run.calls[3].ok
    /\ Len(sheet) = 1 /\ sheet[1].Date = DateStr(Today) /\ sheet[1].Time = <<7, 0, 0>>
    /\ sheet[1].EventID = run.calls[1].arg
    /\ \E e \in EventsNamed(calendar, run.calls[2].arg) :
          DateOf(e.start) = Today /\ HourOf(e.start) = 14

\* every search the model knows: the queries of the sessions and of the
\* search specification
AnyQuery == Queries \cup FindQueries

\* C20: once a cancellation has blanked a booking's row, the row stays
\* blank, no search, whatever the name and phone, returns it, the upcoming
\* list does not show it, and in one session it is never again the booking
\* held in view or rebook mode.
C20_CancelledRowNeverFound ==
    \A c \in cancelled :
        LET i == c.idx - (HeaderRows - 1)
        IN /\ sheet[i] = BlankRow
           /\ \A q \in AnyQuery :
                 LET found == find_customer(sheet, q.name, q.phone)
                 IN found # None => found.idx # c.idx
           /\ i \notin Upcoming(sheet)
           /\ c.po \in SearchPage(sheet).keys => UpcomingFirst(sheet, c.po) # i
           /\ current_customer[1] # None => current_customer[1].idx # c.idx

\* C20 witness: after the first booking was cancelled, a search by name
\* passed over its blank row and opened the second booking
C20_Witness ==
    /\ run.op = "search" /\ mode[1] = "view"
    /\ cancelled # {} /\ \A c \in cancelled : c.idx = 2
    /\ Len(sheet) = 2 /\ sheet[1] = BlankRow
    /\ current_customer[1] = [idx |-> 3, cust |-> sheet[2]]

====
